---------------------------- MODULE Spec2Model ----------------------------
(***************************************************************************)
(* A model of Skin_detection.ipynb: the colour-space skin classifier, the  *)
(* cluster selector, the per-image pipeline display_skin_analysis and the  *)
(* batch driver analyze_directory.                                         *)
(*                                                                         *)
(* Numbers.  Channel values are kept as the integers 0..255; a normalized  *)
(* value x/255 is carried by its numerator x, and the median of an even    *)
(* number of values by the pair of its two middle values.  Real-valued     *)
(* expressions of the code (scores, thresholds, Lstar) are evaluated       *)
(* exactly on integers; products that do not fit 32 bits are computed on   *)
(* naturals held as little-endian digit sequences (the B operators).       *)
(***************************************************************************)
EXTENDS Integers, Sequences, FiniteSets, TLC

(***************************************************************************)
(* Exact naturals: little-endian sequences of digits in base 1000.         *)
(***************************************************************************)
Max2(a, b) == IF a >= b THEN a ELSE b
Min2(a, b) == IF a <= b THEN a ELSE b
Abs(x) == IF x < 0 THEN -x ELSE x

RECURSIVE BNormalize(_, _)
BNormalize(s, carry) ==
    IF s = <<>>
    THEN IF carry = 0 THEN <<>>
         ELSE <<carry % 1000>> \o BNormalize(<<>>, carry \div 1000)
    ELSE LET t == Head(s) + carry
         IN  <<t % 1000>> \o BNormalize(Tail(s), t \div 1000)

BFromInt(n) == BNormalize(<<n>>, 0)
BDigit(a, i) == IF i <= Len(a) THEN a[i] ELSE 0
\* a * k for an integer 0 <= k <= 2000000
BMulInt(a, k) == BNormalize([i \in 1..Len(a) |-> a[i] * k], 0)
BAdd(a, b) ==
    BNormalize([i \in 1..Max2(Len(a), Len(b)) |-> BDigit(a, i) + BDigit(b, i)], 0)

RECURSIVE BCmpFrom(_, _, _)
\* -1, 0, 1 as a < b, a = b, a > b, comparing digits i, i-1, ..., 1
BCmpFrom(a, b, i) ==
    IF i = 0 THEN 0
    ELSE IF BDigit(a, i) < BDigit(b, i) THEN -1
    ELSE IF BDigit(a, i) > BDigit(b, i) THEN 1
    ELSE BCmpFrom(a, b, i - 1)

BCmp(a, b) == BCmpFrom(a, b, Max2(Len(a), Len(b)))
BLeq(a, b) == BCmp(a, b) <= 0
BLess(a, b) == BCmp(a, b) < 0

(***************************************************************************)
(* cv2.cvtColor on one 8-bit pixel, as OpenCV's integer code computes it.  *)
(***************************************************************************)
Saturate8(x) == IF x < 0 THEN 0 ELSE IF x > 255 THEN 255 ELSE x

\* OpenCV's division tables: round((255 << 12) / i) and round((180 << 12) / (6 i))
SDivTable(i) == IF i = 0 THEN 0 ELSE (2 * 1044480 + i) \div (2 * i)
HDivTable180(i) == IF i = 0 THEN 0 ELSE (2 * 122880 + i) \div (2 * i)

\* COLOR_BGR2HSV of the pixel with red r, green g, blue b: <<h, s, v>>
BGR2HSV(r, g, b) ==
    LET v    == Max2(b, Max2(g, r))
        vmin == Min2(b, Min2(g, r))
        diff == v - vmin
        s    == (diff * SDivTable(v) + 2048) \div 4096
        h0   == IF v = r THEN g - b
                ELSE IF v = g THEN b - r + 2 * diff
                ELSE r - g + 4 * diff
        h1   == (h0 * HDivTable180(diff) + 2048) \div 4096
        h    == IF h1 < 0 THEN h1 + 180 ELSE h1
    IN  <<Saturate8(h), s, v>>

\* COLOR_BGR2YCrCb of the pixel with red r, green g, blue b: <<y, cr, cb>>
BGR2YCrCb(r, g, b) ==
    LET y  == (r * 4899 + g * 9617 + b * 1868 + 8192) \div 16384
        cr == ((r - y) * 11682 + 128 * 16384 + 8192) \div 16384
        cb == ((b - y) * 9241 + 128 * 16384 + 8192) \div 16384
    IN  <<Saturate8(y), Saturate8(cr), Saturate8(cb)>>

(***************************************************************************)
(* is_likely_skin_color(r, g, b)                                           *)
(***************************************************************************)
rgb_rule(r, g, b) ==
    /\ r > 95 /\ g > 40 /\ b > 20
    /\ Max2(r, Max2(g, b)) - Min2(r, Min2(g, b)) > 15
    /\ Abs(r - g) > 15 /\ r > g /\ r > b

\* the (r, g, b) with |r - g| / sum = 0.35 as rationals for which the float64
\* value of abs(nr - ng) falls below the float64 0.35 (for the other such
\* triples it does not, and off that boundary float64 and exact comparison agree)
FloatBelowDiffs ==
    { <<31, 73, 16>>, <<45, 94, 1>>, <<62, 146, 32>>, <<73, 31, 16>>,
      <<77, 161, 2>>, <<81, 179, 20>>, <<88, 207, 45>>, <<89, 194, 17>>,
      <<90, 188, 2>>, <<93, 219, 48>>, <<94, 45, 1>>, <<105, 238, 37>>,
      <<109, 228, 3>>, <<111, 251, 38>>, <<146, 62, 32>>, <<161, 77, 2>>,
      <<179, 81, 20>>, <<188, 90, 2>>, <<194, 89, 17>>, <<207, 88, 45>>,
      <<219, 93, 48>>, <<228, 109, 3>>, <<238, 105, 37>>, <<251, 111, 38>> }

\* nr = r/sum, ng = g/sum, nb = b/sum in float64; each comparison is the
\* exact one multiplied out by sum, but for abs(nr - ng) < 0.35 on the
\* triples of FloatBelowDiffs
normalized_rule(r, g, b) ==
    LET sum_rgb == r + g + b
    IN  /\ 100 * r > 35 * sum_rgb
        /\ 100 * b < 35 * sum_rgb
        /\ r > g /\ g > b
        /\ \/ 100 * Abs(r - g) < 35 * sum_rgb
           \/ <<r, g, b>> \in FloatBelowDiffs

hsv_rule(r, g, b) ==
    LET hsv == BGR2HSV(r, g, b)
    IN  /\ hsv[1] >= 0 /\ hsv[1] <= 50
        /\ hsv[2] >= 10 /\ hsv[2] <= 180
        /\ hsv[3] >= 80

ycrcb_rule(r, g, b) ==
    LET ycrcb == BGR2YCrCb(r, g, b)
    IN  /\ ycrcb[2] >= 135 /\ ycrcb[2] <= 180
        /\ ycrcb[3] >= 85 /\ ycrcb[3] <= 135

is_likely_skin_color(r, g, b) ==
    IF r + g + b = 0 THEN FALSE
    ELSE \/ (rgb_rule(r, g, b) /\ normalized_rule(r, g, b))
         \/ (hsv_rule(r, g, b) /\ ycrcb_rule(r, g, b))

(***************************************************************************)
(* rgb_to_lab(r, g, b): Lstar of skimage.color.rgb2lab, as floor(100 Lstar) *)
(***************************************************************************)
\* round(10^15 * linear(k/255)), linear(v) = ((v+0.055)/1.055)^2.4 above
\* 0.04045 and v/12.92 below, as exact naturals: entry k+1 is for channel
\* value k
SRGBLinear == <<
    <<>>, <<549, 983, 526, 303>>, <<98, 967, 53, 607>>,
    <<647, 950, 580, 910>>, <<195, 934, 107, 214, 1>>, <<744, 917, 634, 517, 1>>,
    <<293, 901, 161, 821, 1>>, <<842, 884, 688, 124, 2>>, <<391, 868, 215, 428, 2>>,
    <<940, 851, 742, 731, 2>>, <<488, 835, 269, 35, 3>>, <<899, 763, 535, 346, 3>>,
    <<47, 324, 507, 676, 3>>, <<496, 18, 717, 24, 4>>, <<410, 37, 442, 391, 4>>,
    <<694, 480, 953, 776, 4>>, <<338, 702, 516, 181, 5>>, <<203, 624, 391, 605, 5>>,
    <<857, 22, 833, 48, 6>>, <<594, 792, 90, 512, 6>>, <<265, 187, 410, 995, 6>>,
    <<226, 43, 32, 499, 7>>, <<385, 985, 192, 23, 8>>, <<69, 618, 125, 568, 8>>,
    <<221, 702, 58, 134, 9>>, <<238, 320, 217, 721, 9>>, <<627, 29, 823, 329, 10>>,
    <<488, 6, 94, 960, 10>>, <<744, 179, 245, 612, 11>>, <<916, 356, 488, 286, 12>>,
    <<173, 342, 32, 983, 12>>, <<290, 47, 83, 702, 13>>, <<93, 596, 843, 443, 14>>,
    <<913, 422, 514, 208, 15>>, <<510, 365, 293, 996, 15>>, <<887, 752, 375, 807, 16>>,
    <<384, 488, 954, 641, 17>>, <<380, 128, 220, 500, 18>>, <<936, 956, 360, 382, 19>>,
    <<652, 56, 563, 288, 20>>, <<4, 376, 10, 219, 21>>, <<387, 793, 884, 173, 22>>,
    <<110, 178, 366, 153, 23>>, <<505, 448, 632, 157, 24>>, <<362, 627, 859, 186, 25>>,
    <<850, 894, 221, 241, 26>>, <<75, 639, 891, 320, 27>>, <<421, 504, 39, 426, 28>>,
    <<809, 437, 834, 556, 29>>, <<994, 732, 443, 713, 30>>, <<12, 73, 33, 896, 31>>,
    <<885, 570, 766, 104, 33>>, <<682, 808, 806, 339, 34>>, <<20, 875, 314, 601, 35>>,
    <<100, 401, 450, 889, 36>>, <<346, 595, 371, 204, 38>>, <<733, 276, 235, 546, 39>>,
    <<853, 906, 196, 915, 40>>, <<810, 620, 410, 311, 42>>, <<973, 256, 29, 735, 43>>,
    <<676, 385, 204, 186, 45>>, <<880, 336, 86, 665, 46>>, <<889, 226, 824, 171, 48>>,
    <<127, 984, 565, 706, 49>>, <<43, 374, 458, 269, 51>>, <<180, 23, 647, 860, 52>>,
    <<442, 442, 276, 480, 54>>, <<600, 49, 490, 128, 56>>, <<67, 191, 430, 805, 57>>,
    <<981, 162, 238, 511, 59>>, <<618, 231, 54, 246, 61>>, <<168, 653, 17, 10, 63>>,
    <<906, 692, 266, 803, 64>>, <<773, 643, 938, 625, 66>>, <<400, 844, 169, 478, 68>>,
    <<596, 696, 95, 360, 70>>, <<317, 682, 850, 271, 72>>, <<150, 380, 568, 213, 74>>,
    <<308, 481, 381, 185, 76>>, <<186, 805, 421, 187, 78>>, <<468, 314, 820, 219, 80>>,
    <<815, 129, 707, 282, 82>>, <<149, 544, 211, 376, 84>>, <<550, 36, 462, 500, 86>>,
    <<773, 285, 586, 655, 88>>, <<408, 183, 711, 841, 90>>, <<687, 846, 962, 58, 93>>,
    <<965, 630, 466, 307, 95>>, <<862, 141, 347, 587, 97>>, <<114, 247, 728, 898, 99>>,
    <<101, 88, 733, 241, 102>>, <<104, 91, 484, 616, 104>>, <<268, 978, 102, 23, 107>>,
    <<299, 778, 710, 461, 109>>, <<906, 836, 427, 932, 111>>, <<974, 826, 373, 435, 114>>,
    <<511, 758, 667, 970, 116>>, <<346, 988, 427, 538, 119>>, <<602, 229, 772, 138, 122>>,
    <<950, 560, 817, 771, 124>>, <<647, 435, 680, 437, 127>>, <<364, 690, 476, 136, 130>>,
    <<818, 553, 321, 868, 132>>, <<206, 655, 329, 633, 135>>, <<452, 32, 615, 431, 138>>,
    <<272, 140, 291, 263, 141>>, <<58, 858, 470, 128, 144>>, <<595, 497, 266, 27, 147>>,
    <<609, 810, 789, 959, 149>>, <<150, 996, 151, 926, 152>>, <<827, 707, 463, 926, 155>>,
    <<880, 60, 835, 960, 158>>, <<111, 639, 375, 29, 162>>, <<668, 501, 194, 132, 165>>,
    <<691, 189, 400, 269, 168>>, <<823, 732, 100, 441, 171>>, <<585, 655, 403, 647, 174>>,
    <<629, 983, 415, 888, 177>>, <<860, 249, 244, 164, 181>>, <<441, 500, 994, 474, 184>>,
    <<678, 300, 772, 820, 187>>, <<791, 740, 682, 201, 191>>, <<576, 441, 830, 617, 194>>,
    <<949, 559, 319, 69, 198>>, <<397, 794, 253, 556, 201>>, <<317, 390, 736, 78, 205>>,
    <<256, 145, 870, 636, 208>>, <<55, 414, 757, 230, 212>>, <<899, 113, 500, 860, 215>>,
    <<269, 729, 199, 526, 219>>, <<808, 316, 957, 227, 223>>, <<98, 510, 873, 965, 226>>,
    <<349, 524, 48, 740, 230>>, <<5, 161, 582, 550, 234>>, <<271, 812, 573, 397, 238>>,
    <<555, 465, 122, 281, 242>>, <<835, 707, 326, 201, 246>>, <<953, 729, 284, 158, 250>>,
    <<827, 330, 94, 152, 254>>, <<596, 921, 852, 182, 258>>, <<696, 529, 657, 250, 262>>,
    <<862, 802, 604, 355, 266>>, <<66, 13, 791, 497, 270>>, <<385, 60, 312, 677, 274>>,
    <<810, 476, 263, 894, 278>>, <<992, 429, 740, 148, 283>>, <<917, 726, 837, 440, 287>>,
    <<536, 817, 649, 770, 291>>, <<321, 798, 270, 138, 296>>, <<776, 415, 794, 543, 300>>,
    <<886, 69, 314, 987, 304>>, <<508, 817, 922, 468, 309>>, <<718, 375, 713, 988, 313>>,
    <<92, 125, 778, 546, 318>>, <<951, 112, 209, 143, 323>>, <<542, 56, 98, 778, 327>>,
    <<179, 346, 536, 451, 332>>, <<330, 48, 615, 163, 337>>, <<661, 908, 424, 914, 341>>,
    <<29, 355, 56, 704, 346>>, <<439, 500, 599, 532, 351>>, <<943, 145, 144, 400, 356>>,
    <<509, 783, 779, 306, 361>>, <<839, 598, 595, 252, 366>>, <<149, 474, 680, 237, 371>>,
    <<906, 990, 122, 262, 376>>, <<530, 432, 11, 326, 381>>, <<49, 787, 433, 429, 386>>,
    <<723, 749, 477, 572, 391>>, <<627, 725, 230, 755, 396>>, <<196, 832, 779, 977, 401>>,
    <<737, 901, 211, 240, 407>>, <<904, 483, 613, 542, 412>>, <<137, 848, 70, 885, 417>>,
    <<72, 986, 669, 267, 423>>, <<907, 613, 496, 690, 428>>, <<749, 174, 636, 153, 434>>,
    <<919, 840, 173, 657, 439>>, <<228, 516, 194, 201, 445>>, <<223, 838, 782, 785, 450>>,
    <<405, 180, 23, 411, 456>>, <<407, 654, 999, 76, 462>>, <<159, 112, 796, 783, 467>>,
    <<9, 148, 496, 531, 473>>, <<827, 100, 183, 320, 479>>, <<70, 56, 940, 149, 485>>,
    <<835, 847, 849, 20, 491>>, <<870, 60, 995, 932, 496>>, <<568, 32, 458, 886, 502>>,
    <<934, 854, 320, 881, 508>>, <<521, 376, 665, 917, 514>>, <<354, 204, 573, 995, 520>>,
    <<813, 705, 125, 115, 527>>, <<505, 10, 404, 276, 533>>, <<107, 12, 489, 479, 539>>,
    <<187, 370, 461, 724, 545>>, <<0, 512, 401, 11, 552>>, <<268, 634, 389, 340, 558>>,
    <<929, 704, 505, 711, 564>>, <<873, 464, 829, 124, 571>>, <<650, 429, 440, 580, 577>>,
    <<164, 891, 417, 78, 584>>, <<337, 919, 840, 618, 590>>, <<763, 363, 788, 201, 597>>,
    <<337, 855, 338, 827, 603>>, <<865, 807, 570, 495, 610>>, <<651, 419, 562, 206, 617>>,
    <<76, 675, 391, 960, 623>>, <<147, 346, 136, 757, 630>>, <<32, 994, 873, 596, 637>>,
    <<582, 970, 681, 479, 644>>, <<824, 419, 637, 405, 651>>, <<448, 279, 817, 374, 658>>,
    <<272, 282, 298, 387, 665>>, <<687, 957, 156, 443, 672>>, <<94, 633, 469, 542, 679>>,
    <<313, 435, 312, 685, 686>>, <<990, 291, 761, 871, 693>>, <<973, 932, 891, 101, 701>>,
    <<687, 891, 779, 375, 708>>, <<481, 506, 500, 693, 715>>, <<969, 921, 128, 55, 723>>,
    <<353, 90, 740, 460, 730>>, <<731, 772, 408, 910, 737>>, <<387, 540, 209, 404, 745>>,
    <<78, 776, 216, 942, 752>>, <<292, 675, 504, 524, 760>>, <<507, 247, 147, 151, 768>>,
    <<423, 317, 218, 822, 775>>, <<193, 526, 791, 537, 783>>, <<630, 332, 940, 297, 791>>,
    <<409, 14, 738, 102, 799>>, <<251, 669, 257, 952, 806>>, <<101, 216, 572, 846, 814>>,
    <<283, 396, 754, 785, 822>>, <<655, 774, 876, 769, 830>>, <<740, 740, 11, 799, 838>>,
    <<858, 509, 231, 873, 846>>, <<234, 124, 608, 992, 854>>, <<102, 454, 213, 157, 863>>,
    <<797, 198, 119, 367, 871>>, <<832, 887, 396, 622, 879>>, <<966, 881, 117, 923, 887>>,
    <<267, 374, 353, 269, 896>>, <<149, 391, 174, 661, 904>>, <<419, 793, 651, 98, 913>>,
    <<294, 277, 856, 581, 921>>, <<423, 375, 858, 110, 930>>, <<888, 457, 728, 685, 938>>,
    <<200, 733, 536, 306, 947>>, <<286, 249, 353, 973, 955>>, <<465, 894, 247, 686, 964>>,
    <<412, 398, 290, 445, 973>>, <<117, 333, 550, 250, 982>>, <<830, 113, 97, 102, 991>>,
    <<0, 0, 0, 0, 0, 1>> >>

\* 10^21 * Y, Y = 0.212671 R + 0.715160 G + 0.072169 B on the linear channels
LuminanceY(r, g, b) ==
    BAdd(BAdd(BMulInt(SRGBLinear[r + 1], 212671),
              BMulInt(SRGBLinear[g + 1], 715160)),
         BMulInt(SRGBLinear[b + 1], 72169))

\* Lstar = 116 f(Y) - 16 with f(Y) = cbrt(Y) above 0.008856, so
\* 100 Lstar >= t  iff  ((t + 1600)/11600)^3 <= Y
\*                 iff  10^15 (t + 1600)^3 <= 1560896 * 10^21 Y = scaled
CubeRootReaches(scaled, t) ==
    BLeq(<<0, 0, 0, 0, 0>>
             \o BMulInt(BMulInt(BFromInt(t + 1600), t + 1600), t + 1600),
         scaled)

\* and f(Y) = 7.787 Y + 16/116 below, so Lstar = 903.292 Y and
\* 100 Lstar >= t  iff  10^22 t <= 903292 * 10^21 Y = scaled
LinearReaches(scaled, t) ==
    BLeq(<<0, 0, 0, 0, 0, 0, 0>> \o BMulInt(BFromInt(t), 10), scaled)

RECURSIVE CubeRootSearch(_, _, _)
\* the largest t in lo..hi with CubeRootReaches(scaled, t)
CubeRootSearch(scaled, lo, hi) ==
    IF lo = hi THEN lo
    ELSE IF CubeRootReaches(scaled, (lo + hi + 1) \div 2)
    THEN CubeRootSearch(scaled, (lo + hi + 1) \div 2, hi)
    ELSE CubeRootSearch(scaled, lo, (lo + hi + 1) \div 2 - 1)

RECURSIVE LinearSearch(_, _, _)
\* the largest t in lo..hi with LinearReaches(scaled, t)
LinearSearch(scaled, lo, hi) ==
    IF lo = hi THEN lo
    ELSE IF LinearReaches(scaled, (lo + hi + 1) \div 2)
    THEN LinearSearch(scaled, (lo + hi + 1) \div 2, hi)
    ELSE LinearSearch(scaled, lo, (lo + hi + 1) \div 2 - 1)

\* floor(100 Lstar) for 10^21 Y = y; 8856 * 10^15 is 10^21 * 0.008856
LOfY(y) ==
    IF BLess(<<0, 0, 0, 0, 0, 856, 8>>, y)
    THEN CubeRootSearch(BMulInt(y, 1560896), 0, 10000)
    ELSE LinearSearch(BMulInt(y, 903292), 0, 10000)

\* floor(100 * Lstar)
rgb_to_lab(r, g, b) == LOfY(LuminanceY(r, g, b))

(***************************************************************************)
(* get_lightness_description(L_value), L_value in hundredths.              *)
(***************************************************************************)
\* a variant that sends each boundary value to the darker band
get_lightness_description_strict(L_value) ==
    IF L_value > 8500 THEN "Very Light"
    ELSE IF L_value > 7000 THEN "Light"
    ELSE IF L_value > 5500 THEN "Medium Light"
    ELSE IF L_value > 4000 THEN "Medium"
    ELSE IF L_value > 2500 THEN "Medium Dark"
    ELSE IF L_value > 1000 THEN "Dark"
    ELSE "Very Dark"

get_lightness_description(L_value) ==
    IF L_value >= 8500 THEN "Very Light"
    ELSE IF L_value >= 7000 THEN "Light"
    ELSE IF L_value >= 5500 THEN "Medium Light"
    ELSE IF L_value >= 4000 THEN "Medium"
    ELSE IF L_value >= 2500 THEN "Medium Dark"
    ELSE IF L_value >= 1000 THEN "Dark"
    ELSE "Very Dark"

(***************************************************************************)
(* numpy statistics over a sequence of pixels (triples of channel values). *)
(***************************************************************************)
Range(f) == {f[i] : i \in DOMAIN f}
Column(px, ch) == [i \in 1..Len(px) |-> px[i][ch]]

RECURSIVE SumSeq(_)
SumSeq(xs) == IF xs = <<>> THEN 0 ELSE Head(xs) + SumSeq(Tail(xs))

\* the element at index k (from 0) of sorted(xs)
KthSmallest(xs, k) ==
    CHOOSE v \in Range(xs) :
        /\ Cardinality({i \in 1..Len(xs) : xs[i] <= v}) >= k + 1
        /\ Cardinality({i \in 1..Len(xs) : xs[i] < v}) <= k

\* np.median of one channel: the two middle values of the sorted channel
\* (the same value twice for an odd count); the median is their mean
MedianPair(xs) ==
    <<KthSmallest(xs, (Len(xs) - 1) \div 2), KthSmallest(xs, Len(xs) \div 2)>>

\* np.median(px, axis=0): one pair per channel
MedianColor(px) == [ch \in 1..3 |-> MedianPair(Column(px, ch))]

\* The pairs a < b, coded 256 a + b, with a + b even, for which the float64
\* value ((a/255 + b/255) / 2) * 255 falls just below (a + b)/2.  For every
\* other pair, and for a = b, the product is exact or truncates to
\* floor((a + b)/2).
FloatBelowPairs == {
    321, 325, 329, 333, 337, 341, 345, 349, 353, 357, 361, 365, 369, 373, 377, 381,
    387, 395, 403, 411, 419, 427, 435, 443, 451, 459, 467, 475, 483, 491, 499, 507,
    576, 584, 592, 600, 608, 616, 624, 632, 642, 650, 658, 666, 674, 682, 690, 698,
    706, 714, 722, 730, 738, 746, 754, 762, 897, 899, 905, 907, 913, 915, 921, 923,
    929, 931, 937, 939, 945, 947, 953, 955, 961, 963, 969, 971, 977, 979, 985, 987,
    993, 995, 1001, 1003, 1009, 1011, 1017, 1019, 1086, 1152, 1154, 1168, 1170, 1184, 1186, 1200,
    1202, 1216, 1218, 1232, 1234, 1248, 1250, 1264, 1266, 1345, 1349, 1353, 1357, 1361, 1365, 1369,
    1373, 1377, 1381, 1385, 1389, 1393, 1397, 1401, 1596, 1604, 1612, 1620, 1628, 1636, 1644, 1652,
    1917, 2106, 2172, 2369, 2373, 2377, 2381, 2385, 2389, 2393, 2397, 2401, 2405, 2409, 2413, 2417,
    2421, 2435, 2443, 2451, 2459, 2467, 2475, 2483, 2491, 2499, 2507, 2515, 2523, 2531, 2539, 2547,
    2616, 2624, 2632, 2640, 2648, 2656, 2664, 2672, 2690, 2698, 2706, 2714, 2722, 2730, 2738, 2746,
    2754, 2762, 2770, 2778, 2786, 2794, 2802, 2937, 2945, 2947, 2953, 2955, 2961, 2963, 2969, 2971,
    2977, 2979, 2985, 2987, 2993, 2995, 3001, 3003, 3009, 3011, 3017, 3019, 3025, 3027, 3033, 3035,
    3041, 3043, 3049, 3051, 3057, 3059, 3126, 3134, 3192, 3208, 3210, 3224, 3226, 3240, 3242, 3256,
    3258, 3272, 3274, 3288, 3290, 3304, 3306, 3393, 3397, 3401, 3405, 3409, 3413, 3417, 3421, 3425,
    3429, 3433, 3437, 3441, 3579, 3636, 3644, 3652, 3660, 3668, 3676, 3684, 3692, 3834, 3957, 3965,
    4089, 4091, 4146, 4154, 4212, 4344, 4346, 4417, 4421, 4425, 4429, 4433, 4437, 4441, 4445, 4449,
    4453, 4457, 4461, 4483, 4491, 4499, 4507, 4515, 4523, 4531, 4539, 4547, 4555, 4563, 4571, 4579,
    4587, 4656, 4664, 4672, 4680, 4688, 4696, 4704, 4712, 4738, 4746, 4754, 4762, 4770, 4778, 4786,
    4794, 4802, 4810, 4818, 4826, 4834, 4842, 4977, 4985, 4993, 4995, 5001, 5003, 5009, 5011, 5017,
    5019, 5025, 5027, 5033, 5035, 5041, 5043, 5049, 5051, 5057, 5059, 5065, 5067, 5073, 5075, 5081,
    5083, 5089, 5091, 5097, 5099, 5166, 5174, 5182, 5232, 5248, 5250, 5264, 5266, 5280, 5282, 5296,
    5298, 5312, 5314, 5328, 5330, 5344, 5346, 5441, 5445, 5449, 5453, 5457, 5461, 5465, 5469, 5473,
    5477, 5481, 5619, 5676, 5684, 5692, 5700, 5708, 5716, 5724, 5732, 5874, 5997, 6005, 6013, 6129,
    6131, 6186, 6194, 6202, 6252, 6268, 6384, 6386, 6465, 6469, 6473, 6477, 6481, 6485, 6489, 6493,
    6497, 6501, 6531, 6539, 6547, 6555, 6563, 6571, 6579, 6587, 6595, 6603, 6611, 6619, 6627, 6696,
    6704, 6712, 6720, 6728, 6736, 6744, 6752, 6786, 6794, 6802, 6810, 6818, 6826, 6834, 6842, 6850,
    6858, 6866, 6874, 6882, 7017, 7025, 7033, 7041, 7043, 7049, 7051, 7057, 7059, 7065, 7067, 7073,
    7075, 7081, 7083, 7089, 7091, 7097, 7099, 7105, 7107, 7113, 7115, 7121, 7123, 7129, 7131, 7137,
    7139, 7206, 7214, 7222, 7230, 7272, 7288, 7304, 7306, 7320, 7322, 7336, 7338, 7352, 7354, 7368,
    7370, 7384, 7386, 7489, 7493, 7497, 7501, 7505, 7509, 7513, 7517, 7521, 7659, 7675, 7716, 7724,
    7732, 7740, 7748, 7756, 7764, 7772, 7914, 7930, 8037, 8045, 8053, 8061, 8169, 8171, 8185, 8187,
    8226, 8234, 8242, 8250, 8292, 8308, 8424, 8426, 8513, 8521, 8529, 8537, 8579, 8587, 8595, 8603,
    8611, 8619, 8627, 8635, 8643, 8651, 8659, 8667, 8744, 8752, 8760, 8768, 8776, 8784, 8792, 8834,
    8842, 8850, 8858, 8866, 8874, 8882, 8890, 8898, 8906, 8914, 8922, 9057, 9073, 9089, 9091, 9105,
    9107, 9121, 9123, 9137, 9139, 9153, 9155, 9169, 9171, 9254, 9262, 9270, 9278, 9312, 9328, 9344,
    9346, 9360, 9362, 9376, 9378, 9392, 9394, 9408, 9410, 9424, 9426, 9541, 9549, 9557, 9699, 9715,
    9772, 9780, 9788, 9796, 9804, 9812, 9954, 9970, 10077, 10093, 10109, 10209, 10211, 10282, 10290, 10298,
    10332, 10348, 10364, 10464, 10466, 10561, 10569, 10577, 10627, 10635, 10643, 10651, 10659, 10667, 10675, 10683,
    10691, 10699, 10707, 10800, 10808, 10816, 10824, 10832, 10882, 10890, 10898, 10906, 10914, 10922, 10930, 10938,
    10946, 10954, 10962, 11097, 11113, 11129, 11145, 11147, 11161, 11163, 11177, 11179, 11193, 11195, 11209, 11211,
    11310, 11318, 11326, 11352, 11368, 11384, 11400, 11402, 11416, 11418, 11432, 11434, 11448, 11450, 11464, 11466,
    11589, 11597, 11739, 11755, 11771, 11828, 11836, 11844, 11852, 11994, 12010, 12026, 12117, 12133, 12149, 12249,
    12251, 12281, 12283, 12338, 12346, 12372, 12388, 12404, 12504, 12506, 12536, 12538, 12609, 12617, 12675, 12683,
    12691, 12699, 12707, 12715, 12723, 12731, 12739, 12747, 12856, 12864, 12872, 12930, 12938, 12946, 12954, 12962,
    12970, 12978, 12986, 12994, 13002, 13137, 13153, 13169, 13185, 13187, 13201, 13203, 13217, 13219, 13233, 13235,
    13249, 13251, 13366, 13374, 13392, 13408, 13424, 13440, 13442, 13456, 13458, 13472, 13474, 13488, 13490, 13504,
    13506, 13637, 13779, 13795, 13811, 13884, 13892, 14034, 14050, 14066, 14157, 14173, 14189, 14205, 14289, 14291,
    14321, 14323, 14394, 14412, 14428, 14444, 14460, 14544, 14546, 14576, 14578, 14657, 14723, 14731, 14739, 14747,
    14755, 14763, 14771, 14779, 14787, 14912, 14978, 14986, 14994, 15002, 15010, 15018, 15026, 15034, 15042, 15177,
    15193, 15209, 15225, 15241, 15243, 15257, 15259, 15273, 15275, 15289, 15291, 15422, 15432, 15448, 15464, 15480,
    15496, 15498, 15512, 15514, 15528, 15530, 15544, 15546, 15819, 15835, 15851, 15867, 16074, 16090, 16106, 16122,
    16197, 16213, 16229, 16245, 16329, 16331, 16361, 16363, 16452, 16468, 16484, 16500, 16584, 16586, 16616, 16618,
    16707, 16709, 16723, 16725, 16739, 16741, 16755, 16757, 16771, 16779, 16787, 16795, 16803, 16811, 16819, 16827,
    16839, 16841, 16843, 16871, 16873, 16875, 17026, 17042, 17058, 17074, 17233, 17249, 17265, 17281, 17283, 17297,
    17299, 17313, 17315, 17329, 17331, 17488, 17504, 17520, 17536, 17538, 17552, 17554, 17568, 17570, 17584, 17586,
    17743, 17745, 17759, 17761, 17775, 17777, 17791, 17793, 17795, 17807, 17809, 17811, 17823, 17825, 17827, 17839,
    17841, 17843, 17859, 17875, 17891, 17907, 18114, 18146, 18253, 18269, 18285, 18301, 18369, 18371, 18401, 18403,
    18508, 18524, 18540, 18556, 18624, 18626, 18656, 18658, 18763, 18765, 18779, 18781, 18795, 18797, 18811, 18813,
    18819, 18827, 18835, 18843, 18851, 18859, 18867, 18879, 18881, 18883, 18911, 18913, 18915, 18943, 19082, 19098,
    19114, 19289, 19305, 19321, 19337, 19339, 19353, 19355, 19369, 19371, 19544, 19560, 19576, 19592, 19594, 19608,
    19610, 19624, 19626, 19799, 19801, 19815, 19817, 19831, 19833, 19847, 19849, 19851, 19863, 19865, 19867, 19879,
    19881, 19883, 19899, 19915, 19931, 19947, 19963, 20154, 20186, 20218, 20309, 20325, 20341, 20409, 20411, 20441,
    20443, 20473, 20475, 20564, 20580, 20596, 20664, 20666, 20696, 20698, 20728, 20730, 20819, 20821, 20835, 20837,
    20851, 20853, 20867, 20875, 20883, 20891, 20899, 20907, 20919, 20921, 20923, 20951, 20953, 20955, 20983, 20985,
    20987, 21122, 21138, 21154, 21345, 21361, 21377, 21379, 21393, 21395, 21409, 21411, 21600, 21616, 21632, 21634,
    21648, 21650, 21664, 21666, 21855, 21857, 21871, 21873, 21887, 21889, 21891, 21903, 21905, 21907, 21919, 21921,
    21923, 21939, 21955, 21971, 21987, 22003, 22194, 22226, 22258, 22365, 22381, 22397, 22449, 22451, 22481, 22483,
    22513, 22515, 22620, 22636, 22652, 22704, 22706, 22736, 22738, 22768, 22770, 22875, 22877, 22891, 22893, 22907,
    22909, 22915, 22923, 22931, 22939, 22947, 22959, 22961, 22963, 22991, 22993, 22995, 23023, 23025, 23027, 23178,
    23194, 23401, 23417, 23433, 23435, 23449, 23451, 23656, 23672, 23688, 23690, 23704, 23706, 23911, 23913, 23927,
    23929, 23943, 23945, 23947, 23959, 23961, 23963, 23979, 23995, 24011, 24027, 24043, 24059, 24234, 24266, 24298,
    24421, 24437, 24489, 24491, 24521, 24523, 24553, 24555, 24676, 24692, 24744, 24746, 24776, 24778, 24808, 24810,
    24931, 24933, 24947, 24949, 24963, 24971, 24979, 24987, 24999, 25001, 25003, 25031, 25033, 25035, 25063, 25065,
    25067, 25218, 25234, 25457, 25473, 25475, 25489, 25491, 25712, 25728, 25730, 25744, 25746, 25967, 25969, 25983,
    25985, 25987, 25999, 26001, 26003, 26019, 26035, 26051, 26067, 26083, 26099, 26274, 26306, 26338, 26477, 26493,
    26529, 26531, 26561, 26563, 26593, 26595, 26732, 26748, 26784, 26786, 26816, 26818, 26848, 26850, 26987, 26989,
    27003, 27005, 27011, 27019, 27027, 27039, 27041, 27043, 27071, 27073, 27075, 27103, 27105, 27107, 27135, 27274,
    27513, 27529, 27531, 27768, 27784, 27786, 28023, 28025, 28039, 28041, 28043, 28059, 28075, 28091, 28107, 28123,
    28139, 28155, 28314, 28346, 28378, 28410, 28533, 28569, 28571, 28601, 28603, 28633, 28635, 28665, 28667, 28788,
    28824, 28826, 28856, 28858, 28888, 28890, 28920, 28922, 29043, 29045, 29059, 29067, 29079, 29081, 29083, 29111,
    29113, 29115, 29143, 29145, 29147, 29175, 29177, 29179, 29314, 29569, 29571, 29824, 29826, 30079, 30081, 30083,
    30099, 30115, 30131, 30147, 30163, 30179, 30195, 30354, 30386, 30418, 30450, 30589, 30609, 30611, 30641, 30643,
    30673, 30675, 30705, 30707, 30844, 30864, 30866, 30896, 30898, 30928, 30930, 30960, 30962, 31099, 31101, 31107,
    31119, 31121, 31123, 31151, 31153, 31155, 31183, 31185, 31187, 31215, 31217, 31219, 32139, 32155, 32171, 32187,
    32203, 32219, 32235, 32251, 32394, 32426, 32458, 32490, 32649, 32651, 32681, 32683, 32713, 32715, 32745, 32747,
    32904, 32906, 32936, 32938, 32968, 32970, 33000, 33002, 33159, 33161, 33163, 33191, 33193, 33195, 33223, 33225,
    33227, 33255, 33257, 33259, 33414, 33416, 33418, 33446, 33448, 33450, 33478, 33480, 33482, 33510, 33512, 33514,
    33669, 33671, 33673, 33675, 33701, 33703, 33705, 33707, 33733, 33735, 33737, 33739, 33765, 33767, 33769, 33771,
    34211, 34243, 34275, 34466, 34498, 34530, 34721, 34723, 34753, 34755, 34785, 34787, 34976, 34978, 35008, 35010,
    35040, 35042, 35231, 35233, 35235, 35263, 35265, 35267, 35295, 35297, 35299, 35327, 35486, 35488, 35490, 35518,
    35520, 35522, 35550, 35552, 35554, 35582, 35741, 35743, 35745, 35747, 35773, 35775, 35777, 35779, 35805, 35807,
    35809, 35811, 35837, 35839, 36251, 36283, 36315, 36347, 36506, 36538, 36570, 36602, 36761, 36763, 36793, 36795,
    36825, 36827, 36857, 36859, 37016, 37018, 37048, 37050, 37080, 37082, 37112, 37114, 37271, 37273, 37275, 37303,
    37305, 37307, 37335, 37337, 37339, 37367, 37369, 37371, 37526, 37528, 37530, 37558, 37560, 37562, 37590, 37592,
    37594, 37622, 37624, 37626, 37781, 37783, 37785, 37787, 37813, 37815, 37817, 37819, 37845, 37847, 37849, 37851,
    37877, 37879, 37881, 37883, 38323, 38355, 38387, 38578, 38610, 38642, 38833, 38835, 38865, 38867, 38897, 38899,
    39088, 39090, 39120, 39122, 39152, 39154, 39343, 39345, 39347, 39375, 39377, 39379, 39407, 39409, 39411, 39598,
    39600, 39602, 39630, 39632, 39634, 39662, 39664, 39666, 39853, 39855, 39857, 39859, 39885, 39887, 39889, 39891,
    39917, 39919, 39921, 39923, 40363, 40395, 40427, 40618, 40650, 40682, 40873, 40875, 40905, 40907, 40937, 40939,
    41128, 41130, 41160, 41162, 41192, 41194, 41383, 41385, 41387, 41415, 41417, 41419, 41447, 41449, 41451, 41638,
    41640, 41642, 41670, 41672, 41674, 41702, 41704, 41706, 41893, 41895, 41897, 41899, 41925, 41927, 41929, 41931,
    41957, 41959, 41961, 41963, 42435, 42467, 42690, 42722, 42945, 42947, 42977, 42979, 43200, 43202, 43232, 43234,
    43455, 43457, 43459, 43487, 43489, 43491, 43519, 43710, 43712, 43714, 43742, 43744, 43746, 43774, 43965, 43967,
    43969, 43971, 43997, 43999, 44001, 44003, 44029, 44031, 44475, 44507, 44539, 44730, 44762, 44794, 44985, 44987,
    45017, 45019, 45049, 45051, 45240, 45242, 45272, 45274, 45304, 45306, 45495, 45497, 45499, 45527, 45529, 45531,
    45559, 45561, 45563, 45750, 45752, 45754, 45782, 45784, 45786, 45814, 45816, 45818, 46005, 46007, 46009, 46011,
    46037, 46039, 46041, 46043, 46069, 46071, 46073, 46075, 46547, 46579, 46802, 46834, 47057, 47059, 47089, 47091,
    47312, 47314, 47344, 47346, 47567, 47569, 47571, 47599, 47601, 47603, 47822, 47824, 47826, 47854, 47856, 47858,
    48077, 48079, 48081, 48083, 48109, 48111, 48113, 48115, 48587, 48619, 48842, 48874, 49097, 49099, 49129, 49131,
    49352, 49354, 49384, 49386, 49607, 49609, 49611, 49639, 49641, 49643, 49862, 49864, 49866, 49894, 49896, 49898,
    50117, 50119, 50121, 50123, 50149, 50151, 50153, 50155, 50659, 50914, 51169, 51171, 51424, 51426, 51679, 51681,
    51683, 51711, 51934, 51936, 51938, 51966, 52189, 52191, 52193, 52195, 52221, 52223, 52699, 52731, 52954, 52986,
    53209, 53211, 53241, 53243, 53464, 53466, 53496, 53498, 53719, 53721, 53723, 53751, 53753, 53755, 53974, 53976,
    53978, 54006, 54008, 54010, 54229, 54231, 54233, 54235, 54261, 54263, 54265, 54267, 54771, 55026, 55281, 55283,
    55536, 55538, 55791, 55793, 55795, 56046, 56048, 56050, 56301, 56303, 56305, 56307, 56811, 57066, 57321, 57323,
    57576, 57578, 57831, 57833, 57835, 58086, 58088, 58090, 58341, 58343, 58345, 58347, 59903, 60158, 60413, 60415,
    60923, 61178, 61433, 61435, 61688, 61690, 61943, 61945, 61947, 62198, 62200, 62202, 62453, 62455, 62457, 62459 }

\* int(x * 255) for the median x of a channel whose middle values are a <= b
TruncMedian(pair) ==
    LET a == pair[1]
        b == pair[2]
    IN  IF a # b /\ (a + b) % 2 = 0 /\ (256 * a + b) \in FloatBelowPairs
        THEN (a + b) \div 2 - 1
        ELSE (a + b) \div 2

\* tuple(int(x * 255) for x in median_color)
TruncColor(median_color) == [ch \in 1..3 |-> TruncMedian(median_color[ch])]

\* 1530 * np.mean(median_color): the sum of the six middle values
Brightness1530(median_color) ==
    SumSeq([ch \in 1..3 |-> median_color[ch][1] + median_color[ch][2]])

\* 3 * 65025 * n^2 * np.var(px, axis=0).mean(), n = Len(px)
Variance(px) ==
    LET n == Len(px)
        V(ch) == LET xs == Column(px, ch)
                 IN  n * SumSeq([i \in 1..n |-> xs[i] * xs[i]])
                         - SumSeq(xs) * SumSeq(xs)
    IN  V(1) + V(2) + V(3)

(***************************************************************************)
(* get_dominant_non_dark_cluster(pixels, labels, n_clusters)               *)
(***************************************************************************)
\* pixels[labels == i]
ClusterPixels(pixels, labels, i) ==
    LET all   == [j \in 1..Len(pixels) |-> j]
        In(j) == labels[j] = i
        idx   == SelectSeq(all, In)
    IN  [r \in 1..Len(idx) |-> pixels[idx[r]]]

\* rgb[::-1]
Reversed(rgb) == <<rgb[3], rgb[2], rgb[1]>>

\* rgb = tuple(int(x * 255) for x in median_color);
\* is_likely_skin_color(*rgb[::-1])
ClusterIsSkin(median_color) ==
    LET args == Reversed(TruncColor(median_color))
    IN  is_likely_skin_color(args[1], args[2], args[3])

\* one entry of the list clusters: (i, score, brightness, size, median_color),
\* the score kept by what it is computed from
EntryOf(i, cluster_pixels, median_color) ==
    [id           |-> i,
     pixels       |-> cluster_pixels,
     brightness   |-> Brightness1530(median_color),
     variance     |-> Variance(cluster_pixels),
     size         |-> Len(cluster_pixels),
     median_color |-> median_color,
     is_skin      |-> ClusterIsSkin(median_color)]

EntryOfPixels(i, cluster_pixels) ==
    EntryOf(i, cluster_pixels, MedianColor(cluster_pixels))

ClusterEntry(pixels, labels, i) ==
    EntryOfPixels(i, ClusterPixels(pixels, labels, i))

\* With M = 1530 brightness, V = 195075 n^2 color_variance, n = size and
\* N = len(pixels):
\*   0.4 brightness + 0.3 (1 - color_variance) + 0.3 (size / N)
\*     = (N n^2 (170 M + 195075) + 195075 n^3 - N V) / (650250 n^2 N)
\* ScorePlus and ScoreMinus are the two parts of that numerator.
ScorePlus(c, N) ==
    BAdd(BMulInt(BMulInt(BFromInt(170 * c.brightness + 195075),
                         c.size * c.size), N),
         BMulInt(BFromInt(195075 * c.size), c.size * c.size))

ScoreMinus(c, N) == BMulInt(BFromInt(c.variance), N)

\* score *= 1.5 for a skin-like cluster: weights 3 and 2, and the other
\* cluster's n^2 to bring both scores to one denominator
Weight(c, d) == (IF c.is_skin THEN 3 ELSE 2) * d.size * d.size

\* -1, 0, 1 as score(c) <, =, > score(d), the scores taken as real numbers
ScoreCmp(c, d, N) ==
    BCmp(BAdd(BMulInt(ScorePlus(c, N), Weight(c, d)),
              BMulInt(ScoreMinus(d, N), Weight(d, c))),
         BAdd(BMulInt(ScorePlus(d, N), Weight(d, c)),
              BMulInt(ScoreMinus(c, N), Weight(c, d))))

\* the loop of lines 59-84: the entries of the non-empty clusters, by id
ClusterEntries(pixels, labels, n_clusters) ==
    [i \in {i \in 0..(n_clusters - 1) : \E j \in 1..Len(pixels) : labels[j] = i}
        |-> ClusterEntry(pixels, labels, i)]

\* clusters.sort(key=lambda x: -x[1]) sorts the float64 scores.  Scores that
\* differ as real numbers keep their order in float64.  Scores that are
\* equal as real numbers are equal in float64 when they are computed from
\* the same pixels, and the stable sort then keeps the order of appending
\* (ascending id); computed from other pixels they come out of np.mean and
\* np.var equal or one rounding apart in either direction, as the summation
\* order of the numpy build has it, and either order is possible.
MayPrecede(c, d, N) ==
    \/ ScoreCmp(c, d, N) > 0
    \/ ScoreCmp(c, d, N) = 0 /\ (c.pixels = d.pixels => c.id < d.id)

ScoreOrders(entry, N) ==
    {order \in [1..Cardinality(DOMAIN entry) -> DOMAIN entry] :
        \A q, r \in DOMAIN order :
            q < r => /\ order[q] # order[r]
                     /\ MayPrecede(entry[order[q]], entry[order[r]], N)}

\* the lists line 87 can leave
SortByScore(entry, N) ==
    {[r \in DOMAIN order |-> entry[order[r]]] : order \in ScoreOrders(entry, N)}

SortedClusters(pixels, labels, n_clusters) ==
    SortByScore(ClusterEntries(pixels, labels, n_clusters), Len(pixels))

\* brightness > 0.15 and size > len(pixels) * 0.05
BrightAndLarge(c, N) == 10 * c.brightness > 2295 /\ 20 * c.size > N

\* line 91 and line 93
Accepted(c, N) == BrightAndLarge(c, N) /\ c.is_skin

\* a variant whose fallback is cluster 0 rather than the best-scored cluster
FirstAcceptedOrZero(clusters, N) ==
    IF \E r \in 1..Len(clusters) : Accepted(clusters[r], N)
    THEN clusters[CHOOSE r \in 1..Len(clusters) :
                      /\ Accepted(clusters[r], N)
                      /\ \A q \in 1..(r - 1) : ~Accepted(clusters[q], N)].id
    ELSE 0

\* the loop of lines 90-94 and the fallback of line 96; -1 stands for the
\* IndexError that clusters[0] raises when clusters is empty
FirstAccepted(clusters, N) ==
    IF \E r \in 1..Len(clusters) : Accepted(clusters[r], N)
    THEN clusters[CHOOSE r \in 1..Len(clusters) :
                      /\ Accepted(clusters[r], N)
                      /\ \A q \in 1..(r - 1) : ~Accepted(clusters[q], N)].id
    ELSE IF Len(clusters) = 0 THEN -1
    ELSE clusters[1].id

\* the cluster ids the call can return, one per list line 87 can leave
get_dominant_non_dark_cluster(pixels, labels, n_clusters) ==
    {FirstAccepted(clusters, Len(pixels)) :
        clusters \in SortedClusters(pixels, labels, n_clusters)}

(***************************************************************************)
(* display_skin_analysis(image_path), from the decoded and bilateral-      *)
(* filtered grid on.  A pixel is <<r, g, b, a>>; a 3-channel image carries *)
(* a = 255 in every pixel, the value line 153 gives it.                    *)
(***************************************************************************)
NClusters == 5

Valid(pixel) == pixel[4] > 127
Rgb(pixel) == <<pixel[1], pixel[2], pixel[3]>>

\* the scan of lines 146-175: the coordinates of the valid pixels, row by row
ValidPixelCoords(img) ==
    LET all == [t \in 1..(img.height * img.width) |->
                   <<(t - 1) \div img.width, (t - 1) % img.width>>]
        Keep(rc) == Valid(img.px[rc])
    IN  SelectSeq(all, Keep)

\* a variant whose patch takes in the pixels at distance patch_size
CenterPixelsInclusive(img, coords) ==
    LET center_x   == img.width \div 2
        center_y   == img.height \div 2
        patch_size == Min2(img.width, img.height) \div 4
        all        == [i \in 1..Len(coords) |-> i]
        In(i)      == /\ Abs(coords[i][2] - center_x) <= patch_size
                      /\ Abs(coords[i][1] - center_y) <= patch_size
    IN  SelectSeq(all, In)

\* lines 190-197: the indices (from 1) into valid_pixel_coords of the pixels
\* of the center patch
CenterPixels(img, coords) ==
    LET center_x   == img.width \div 2
        center_y   == img.height \div 2
        patch_size == Min2(img.width, img.height) \div 4
        all        == [i \in 1..Len(coords) |-> i]
        In(i)      == /\ Abs(coords[i][2] - center_x) < patch_size
                      /\ Abs(coords[i][1] - center_y) < patch_size
    IN  SelectSeq(all, In)

\* xs[idx] for a sequence idx of indices
Take(xs, idx) == [i \in 1..Len(idx) |-> xs[idx[i]]]

\* lines 212-217 fail when a valid pixel outside the skin cluster is given
\* the 4-value background colour in a 3-channel output image
OutputFits(img, labs, cluster) ==
    img.channels = 4 \/ \A i \in 1..Len(labs) : labs[i] = cluster

\* 20 * np.percentile(xs, 95): linear interpolation at index 0.95 (n - 1)
Percentile95x20(xs) ==
    LET n    == Len(xs)
        lo   == (19 * (n - 1)) \div 20
        frac == (19 * (n - 1)) % 20
        hi   == Min2(lo + 1, n - 1)
        a    == KthSmallest(xs, lo)
        b    == KthSmallest(xs, hi)
    IN  20 * a + frac * (b - a)

\* 60 * np.mean(bright_threshold), bright_threshold of line 227
BrightThreshold(skin_pixels) ==
    SumSeq([ch \in 1..3 |-> Percentile95x20(Column(skin_pixels, ch))])

\* np.mean(pixel) > np.mean(bright_threshold) * 0.7 as real numbers
Brighter(pixel, t) == 200 * (pixel[1] + pixel[2] + pixel[3]) > 7 * t

\* the two sides of line 228 are equal as real numbers and not zero: the
\* float64 values (sums of quotients by 255, an interpolated percentile, a
\* product by 0.7) are a rounding apart, in one direction or the other
OnThreshold(pixel, t) ==
    t > 0 /\ 200 * (pixel[1] + pixel[2] + pixel[3]) = 7 * t

\* the pixels of skin_pixels that are brighter or of a colour in kept
KeepBright(skin_pixels, t, kept) ==
    LET Keep(pixel) == Brighter(pixel, t) \/ pixel \in kept
    IN  SelectSeq(skin_pixels, Keep)

BrightFilteredAt(skin_pixels, t) ==
    {KeepBright(skin_pixels, t, kept) :
        kept \in SUBSET {pixel \in Range(skin_pixels) : OnThreshold(pixel, t)}}

\* lines 227-229: the values skin_pixels[bright_mask] can have: the pixels
\* whose mean channel value exceeds 0.7 times the mean of the per-channel
\* 95th percentiles; a colour on the threshold is kept or dropped as its
\* float64 values fall (black on a threshold of 0 is dropped: 0.0 > 0.0)
BrightFiltered(skin_pixels) ==
    BrightFilteredAt(skin_pixels, BrightThreshold(skin_pixels))

\* a variant that always keeps the unfiltered pixels
OrElseUnfiltered(filtered, skin_pixels) == skin_pixels

\* lines 231-232
OrElse(filtered, skin_pixels) ==
    IF Len(filtered) = 0 THEN skin_pixels ELSE filtered

\* the values skin_pixels_filtered can have at line 235
SkinPixelsFiltered(skin_pixels) ==
    {OrElse(filtered, skin_pixels) : filtered \in BrightFiltered(skin_pixels)}

\* lines 239-240 and 279: (L, lightness_category, rgb)
ProfileOfL(L, rgb) ==
    [L |-> L, category |-> get_lightness_description(L), rgb |-> rgb]

\* a variant that hands the channels to rgb_to_lab in blue, green, red order
ProfileOfRgbSwapped(rgb) == ProfileOfL(rgb_to_lab(rgb[3], rgb[2], rgb[1]), rgb)

ProfileOfRgb(rgb) == ProfileOfL(rgb_to_lab(rgb[1], rgb[2], rgb[3]), rgb)

\* lines 235-236
Profile(filtered) == ProfileOfRgb(TruncColor(MedianColor(filtered)))

(***************************************************************************)
(* State.                                                                  *)
(***************************************************************************)
VARIABLES
    image,                \* the filtered grid, or NoImage when imread fails
    pc,                   \* the stage display_skin_analysis is about to run
    valid_pixel_coords,   \* (row, col) of each valid pixel
    pixels,               \* (r, g, b) numerators of each valid pixel
    labels,               \* kmeans.labels_
    center_pixels,        \* indices of the valid pixels in the center patch
    skin_cluster,         \* the selected cluster id, -1 before
    skin_pixels_filtered, \* the pixels the final median is taken over
    result,               \* the returned (L, category, rgb)
    error,                \* the message of the exception raised, "" if none
    call,                 \* a direct call of one function: arguments, return
    listing,              \* os.listdir(directory_path)
    todo,                 \* the file names the loop of line 290 has yet to visit
    results,              \* the list results
    df,                   \* the returned table
    dpc                   \* where analyze_directory is

pipeVars == <<image, pc, valid_pixel_coords, pixels, labels, center_pixels,
              skin_cluster, skin_pixels_filtered, result, error>>
dirVars == <<listing, todo, results, df, dpc>>
vars == <<image, pc, valid_pixel_coords, pixels, labels, center_pixels,
          skin_cluster, skin_pixels_filtered, result, error, call,
          listing, todo, results, df, dpc>>

\* cv2.imread returned None
NoImage == [width |-> 0, height |-> 0, channels |-> 0, px |-> <<>>]
NoProfile == [L |-> -1, category |-> "", rgb |-> <<>>]
NoCall == [fn |-> ""]

PipeIdle ==
    /\ image = NoImage /\ pc = "idle"
    /\ valid_pixel_coords = <<>> /\ pixels = <<>> /\ labels = <<>>
    /\ center_pixels = <<>> /\ skin_cluster = -1
    /\ skin_pixels_filtered = <<>> /\ result = NoProfile /\ error = ""
DirIdle ==
    listing = {} /\ todo = <<>> /\ results = <<>> /\ df = <<>> /\ dpc = "idle"
CallIdle == call = NoCall

(***************************************************************************)
(* Input images: width and height up to MaxDim, square or one pixel wider  *)
(* or higher; the columns left of a split column hold one kind of pixel,   *)
(* the others a second kind.  A 4-channel image also has pixels of opacity *)
(* 128 (valid) and 127 (not valid).                                        *)
(***************************************************************************)
MaxDim == 8

Skin == <<210, 170, 140>>
Black == <<0, 0, 0>>
Blue == <<140, 170, 210>>
DarkSkin == <<141, 85, 36>>
\* two greys with mean(GreyDark) = 0.7 * mean(GreyLight) as real numbers
GreyDark == <<70, 70, 70>>
GreyLight == <<100, 100, 100>>

PixelKinds(channels) ==
    IF channels = 3
    THEN {Skin \o <<255>>, Black \o <<255>>}
    ELSE {Skin \o <<255>>, DarkSkin \o <<255>>, Black \o <<255>>,
          Blue \o <<128>>, Skin \o <<127>>}

SplitImage(w, h, channels, split, left, right) ==
    [width |-> w, height |-> h, channels |-> channels,
     px |-> [rc \in (0..(h - 1)) \X (0..(w - 1)) |->
                IF rc[2] < split THEN left ELSE right]]

InitPipe ==
    /\ \/ image = NoImage
       \/ \E w \in 1..MaxDim, h \in 1..MaxDim, ch \in {3, 4} :
            /\ h \in {w - 1, w, w + 1}
            /\ \E split \in 0..w, left \in PixelKinds(ch), right \in PixelKinds(ch) :
                 image = SplitImage(w, h, ch, split, left, right)
       \/ \E w \in 4..MaxDim, ch \in {3, 4} :
            \E split \in 1..(w - 1) :
                image = SplitImage(w, w, ch, split, GreyDark \o <<255>>,
                                   GreyLight \o <<255>>)
    /\ pc = "extract"
    /\ valid_pixel_coords = <<>> /\ pixels = <<>> /\ labels = <<>>
    /\ center_pixels = <<>> /\ skin_cluster = -1
    /\ skin_pixels_filtered = <<>> /\ result = NoProfile /\ error = ""
    /\ CallIdle /\ DirIdle

\* raise ValueError(msg): the call ends, nothing is returned
Raise(msg) ==
    /\ error' = msg
    /\ pc' = "failed"
    /\ result' = NoProfile

\* lines 126-179: read, filter, scan the valid pixels
FeatureExtractor ==
    /\ pc = "extract"
    /\ IF image = NoImage
       THEN /\ Raise("Failed to read image")
            /\ UNCHANGED <<valid_pixel_coords, pixels>>
       ELSE /\ valid_pixel_coords' = ValidPixelCoords(image)
            /\ pixels' = [i \in 1..Len(valid_pixel_coords') |->
                             Rgb(image.px[valid_pixel_coords'[i]])]
            /\ IF Len(pixels') = 0
               THEN Raise("No non-transparent pixels found in image")
               ELSE pc' = "cluster" /\ UNCHANGED <<result, error>>
    /\ UNCHANGED <<image, labels, center_pixels, skin_cluster,
                   skin_pixels_filtered, call, dirVars>>

\* a variant of the clusterer that accepts fewer samples than clusters
PixelClustererUnchecked ==
    /\ pc = "cluster"
    /\ \E lab \in [Range(pixels) -> 0..(NClusters - 1)] :
         labels' = [i \in 1..Len(pixels) |-> lab[pixels[i]]]
    /\ pc' = "center"
    /\ UNCHANGED <<result, error>>
    /\ UNCHANGED <<image, valid_pixel_coords, pixels, center_pixels,
                   skin_cluster, skin_pixels_filtered, call, dirVars>>

\* lines 186-187: KMeans(n_clusters=5).fit raises for fewer samples than
\* clusters; otherwise every sample gets the label of its nearest center, so
\* equal feature vectors (equal colours) get equal labels
PixelClusterer ==
    /\ pc = "cluster"
    /\ IF Len(pixels) < NClusters
       THEN /\ Raise("n_samples should be >= n_clusters")
            /\ UNCHANGED labels
       ELSE /\ \E lab \in [Range(pixels) -> 0..(NClusters - 1)] :
                 labels' = [i \in 1..Len(pixels) |-> lab[pixels[i]]]
            /\ pc' = "center"
            /\ UNCHANGED <<result, error>>
    /\ UNCHANGED <<image, valid_pixel_coords, pixels, center_pixels,
                   skin_cluster, skin_pixels_filtered, call, dirVars>>

\* lines 190-200
CenterPatch ==
    /\ pc = "center"
    /\ center_pixels' = CenterPixels(image, valid_pixel_coords)
    /\ IF Len(center_pixels') = 0
       THEN Raise("No valid pixels found in center patch")
       ELSE pc' = "select" /\ UNCHANGED <<result, error>>
    /\ UNCHANGED <<image, valid_pixel_coords, pixels, labels, skin_cluster,
                   skin_pixels_filtered, call, dirVars>>

SelectorReturns(ret) ==
    IF ret = -1
    THEN Raise("list index out of range") /\ UNCHANGED skin_cluster
    ELSE /\ skin_cluster' = ret
         /\ pc' = "mask"
         /\ UNCHANGED <<result, error>>

\* lines 203-209
ClusterSelector ==
    /\ pc = "select"
    /\ \E ret \in get_dominant_non_dark_cluster(
           Take(pixels, center_pixels), Take(labels, center_pixels), NClusters) :
         SelectorReturns(ret)
    /\ UNCHANGED <<image, valid_pixel_coords, pixels, labels, center_pixels,
                   skin_pixels_filtered, call, dirVars>>

\* lines 212-224: the output image, then the pixels of the skin cluster
SkinMask ==
    /\ pc = "mask"
    /\ IF ~OutputFits(image, labels, skin_cluster)
       THEN Raise("could not broadcast input array from shape (4,) into shape (3,)")
       ELSE IF Len(ClusterPixels(pixels, labels, skin_cluster)) = 0
       THEN Raise("No skin pixels detected")
       ELSE pc' = "summarize" /\ UNCHANGED <<result, error>>
    /\ UNCHANGED <<image, valid_pixel_coords, pixels, labels, center_pixels,
                   skin_cluster, skin_pixels_filtered, call, dirVars>>

\* lines 227-279
SkinColorSummarizer ==
    /\ pc = "summarize"
    /\ skin_pixels_filtered' \in
           SkinPixelsFiltered(ClusterPixels(pixels, labels, skin_cluster))
    /\ result' = Profile(skin_pixels_filtered')
    /\ pc' = "done"
    /\ UNCHANGED <<image, valid_pixel_coords, pixels, labels, center_pixels,
                   skin_cluster, error, call, dirVars>>

NextPipe ==
    \/ FeatureExtractor
    \/ PixelClusterer
    \/ CenterPatch
    \/ ClusterSelector
    \/ SkinMask
    \/ SkinColorSummarizer

SpecPipe == InitPipe /\ [][NextPipe]_vars

(***************************************************************************)
(* Direct calls of get_dominant_non_dark_cluster.  The arguments are up to *)
(* MaxRuns runs of equal pixels with one label each; a run has 1, 2 or     *)
(* LongRun pixels.                                                         *)
(***************************************************************************)
MaxRuns == 2
LongRun == 40

\* Olive has the channel values of Skin in another order: two clusters of
\* these colours and of one size have scores equal as real numbers
Olive == <<170, 210, 140>>
SelColours == {Skin, Blue, Black, DarkSkin, Olive}
RunLengths == {1, 2, LongRun}

RECURSIVE Repeat(_, _)
Repeat(x, n) == IF n = 0 THEN <<>> ELSE <<x>> \o Repeat(x, n - 1)

RECURSIVE Flatten(_)
Flatten(ss) == IF ss = <<>> THEN <<>> ELSE Head(ss) \o Flatten(Tail(ss))

Runs == [colour : SelColours, label : 0..(NClusters - 1), length : RunLengths]

InitSel ==
    /\ \E n \in 1..MaxRuns : \E runs \in [1..n -> Runs] :
         call = [fn     |-> "get_dominant_non_dark_cluster",
                 pixels |-> Flatten([i \in 1..n |->
                                Repeat(runs[i].colour, runs[i].length)]),
                 labels |-> Flatten([i \in 1..n |->
                                Repeat(runs[i].label, runs[i].length)]),
                 state  |-> "called",
                 clusters |-> <<>>,
                 ret    |-> -1]
    /\ PipeIdle /\ DirIdle

\* the call runs to its return; clusters is the list as line 87 leaves it
SelectorCall ==
    /\ call.fn = "get_dominant_non_dark_cluster" /\ call.state = "called"
    /\ \E clusters \in SortedClusters(call.pixels, call.labels, NClusters) :
         call' = [call EXCEPT
                     !.clusters = clusters,
                     !.ret = FirstAccepted(clusters, Len(call.pixels)),
                     !.state = "returned"]
    /\ UNCHANGED <<pipeVars, dirVars>>

SpecSel == InitSel /\ [][SelectorCall]_vars

(***************************************************************************)
(* Direct calls of get_lightness_description, L_value in hundredths from 0 *)
(* to MaxL.                                                                *)
(***************************************************************************)
MaxL == 10000

InitLightness ==
    /\ \E l \in 0..MaxL :
         call = [fn |-> "get_lightness_description", L_value |-> l,
                 state |-> "called", ret |-> ""]
    /\ PipeIdle /\ DirIdle

LightnessCall ==
    /\ call.fn = "get_lightness_description" /\ call.state = "called"
    /\ call' = [call EXCEPT !.ret = get_lightness_description(call.L_value),
                            !.state = "returned"]
    /\ UNCHANGED <<pipeVars, dirVars>>

SpecLightness == InitLightness /\ [][LightnessCall]_vars

(***************************************************************************)
(* display_skin_analysis as one call: what it can raise or return for an   *)
(* image and the labelling lab (colour -> label) the clusterer gives.      *)
(***************************************************************************)
Raised(msg) == [error |-> msg, result |-> NoProfile]
Returned(profile) == [error |-> "", result |-> profile]

\* lines 220-279
AnalysisOfSkinPixels(skin_pixels) ==
    IF Len(skin_pixels) = 0 THEN {Raised("No skin pixels detected")}
    ELSE {Returned(Profile(filtered)) :
             filtered \in SkinPixelsFiltered(skin_pixels)}

\* lines 212-217
AnalysisOfCluster(img, pxs, labs, cluster) ==
    IF cluster = -1 THEN {Raised("list index out of range")}
    ELSE IF ~OutputFits(img, labs, cluster)
    THEN {Raised("could not broadcast input array from shape (4,) into shape (3,)")}
    ELSE AnalysisOfSkinPixels(ClusterPixels(pxs, labs, cluster))

\* lines 199-209
AnalysisOfCenter(img, pxs, labs, center) ==
    IF Len(center) = 0 THEN {Raised("No valid pixels found in center patch")}
    ELSE UNION {AnalysisOfCluster(img, pxs, labs, cluster) :
                   cluster \in get_dominant_non_dark_cluster(
                       Take(pxs, center), Take(labs, center), NClusters)}

\* lines 178-197
AnalysisOfPixels(img, coords, pxs, lab) ==
    IF Len(pxs) = 0 THEN {Raised("No non-transparent pixels found in image")}
    ELSE IF Len(pxs) < NClusters THEN {Raised("n_samples should be >= n_clusters")}
    ELSE AnalysisOfCenter(img, pxs, [i \in 1..Len(pxs) |-> lab[pxs[i]]],
                          CenterPixels(img, coords))

AnalysisOfCoords(img, coords, lab) ==
    AnalysisOfPixels(img, coords,
                     [i \in 1..Len(coords) |-> Rgb(img.px[coords[i]])], lab)

\* what the call can raise or return
display_skin_analysis(img, lab) ==
    IF img = NoImage THEN {Raised("Failed to read image")}
    ELSE AnalysisOfCoords(img, ValidPixelCoords(img), lab)

(***************************************************************************)
(* analyze_directory(directory_path, output_csv).  File names are          *)
(* sequences of character codes; a directory holds up to MaxFiles of the   *)
(* names of FileNames, and a file decodes to one of DirImages.             *)
(***************************************************************************)
MaxFiles == 3

FileNames == {
    <<97, 46, 112, 110, 103>>,       \* a.png
    <<66, 46, 80, 78, 71>>,          \* B.PNG
    <<99, 46, 106, 112, 103>>,       \* c.jpg
    <<112, 110, 103>>,               \* png
    <<201, 46, 80, 110, 103>>,       \* chr(201) + .Png
    <<46, 112, 110, 103>> }          \* .png

DirImages == {
    NoImage,
    SplitImage(1, 1, 4, 0, Skin \o <<255>>, Skin \o <<255>>),
    SplitImage(4, 4, 4, 2, Skin \o <<255>>, Skin \o <<127>>),
    SplitImage(4, 4, 4, 0, Skin \o <<127>>, Skin \o <<127>>),
    SplitImage(4, 4, 4, 0, Skin \o <<255>>, Skin \o <<255>>),
    SplitImage(4, 5, 4, 2, Black \o <<255>>, DarkSkin \o <<255>>),
    SplitImage(4, 4, 3, 1, Black \o <<255>>, Skin \o <<255>>) }

Colours(img) == {Rgb(img.px[rc]) : rc \in DOMAIN img.px}

\* line 291: the characters c for which c.lower() is the k-th character of
\* '.png'.  str.lower() changes many characters besides A..Z (chr(201) to
\* chr(233), chr(304) to two characters, chr(8490) to 'k'), but no
\* character other than these seven has '.', 'p', 'n' or 'g' anywhere in
\* its lower-case form, and each of the seven lowers to one character
PngSuffix == <<{46}, {80, 112}, {78, 110}, {71, 103}>>

\* line 291: filename.lower().endswith('.png'), which by the above holds
\* exactly when the last four characters of filename lower to '.png'
IsPng(filename) ==
    /\ Len(filename) >= Len(PngSuffix)
    /\ \A k \in DOMAIN PngSuffix :
           filename[Len(filename) - Len(PngSuffix) + k] \in PngSuffix[k]

RECURSIVE StrLess(_, _)
\* a < b for strings: the first differing character decides, a proper
\* prefix is smaller
StrLess(a, b) ==
    IF b = <<>> THEN FALSE
    ELSE IF a = <<>> THEN TRUE
    ELSE IF Head(a) # Head(b) THEN Head(a) < Head(b)
    ELSE StrLess(Tail(a), Tail(b))

\* sorted(names)
Sorted(names) ==
    [r \in 1..Cardinality(names) |->
        CHOOSE n \in names :
            Cardinality({m \in names : StrLess(m, n)}) = r - 1]

\* f"#{rgb[0]:02x}{rgb[1]:02x}{rgb[2]:02x}", the six hexadecimal digits
RgbHex(rgb) ==
    <<rgb[1] \div 16, rgb[1] % 16, rgb[2] \div 16, rgb[2] % 16,
      rgb[3] \div 16, rgb[3] % 16>>

\* the null of a numeric column
Null == -1

\* lines 298-306
ResultRow(filename, profile) ==
    [filename |-> filename, L_value |-> profile.L,
     category |-> profile.category,
     r |-> profile.rgb[1], g |-> profile.rgb[2], b |-> profile.rgb[3],
     rgb_hex |-> RgbHex(profile.rgb)]

\* lines 310-318
ErrorRow(filename) ==
    [filename |-> filename, L_value |-> Null, category |-> "ERROR",
     r |-> Null, g |-> Null, b |-> Null, rgb_hex |-> <<>>]

\* lines 295-318: try / except Exception
RowOf(filename, outcome) ==
    IF outcome.error = "" THEN ResultRow(filename, outcome.result)
    ELSE ErrorRow(filename)

\* df.sort_values('L_value', ascending=True, na_position='last'): the rows
\* with a value ascending, equal values in any order (the sort is not
\* stable), then the rows without a value in their order in results
SortedByL(rows) ==
    {t \in [1..Len(rows) -> Range(rows)] :
        /\ \A i, j \in 1..Len(rows) : i < j =>
             /\ t[i] # t[j]
             /\ t[i].L_value = Null => t[j].L_value = Null
             /\ (t[i].L_value # Null /\ t[j].L_value # Null)
                    => t[i].L_value <= t[j].L_value
        /\ \A i, j \in 1..Len(rows) :
             (i < j /\ rows[i].L_value = Null /\ rows[j].L_value = Null)
                 => \E a, b \in 1..Len(rows) :
                        a < b /\ t[a] = rows[i] /\ t[b] = rows[j]}

InitDir ==
    /\ listing \in {d \in SUBSET FileNames : Cardinality(d) <= MaxFiles}
    /\ todo = Sorted(listing)
    /\ results = <<>>
    /\ df = <<>>
    /\ dpc = "loop"
    /\ PipeIdle /\ CallIdle

\* a variant of lines 295-318 that records no row for an image that fails
VisitImageSkipErrors(img, outcome) ==
    /\ results' = IF outcome.error = ""
                  THEN Append(results, RowOf(Head(todo), outcome))
                  ELSE results
    /\ image' = img
    /\ error' = outcome.error
    /\ result' = outcome.result

\* lines 295-318 for one .png file: the call of display_skin_analysis on the
\* image img with the outcome given, and the row appended for it
VisitImage(img, outcome) ==
    /\ results' = Append(results, RowOf(Head(todo), outcome))
    /\ image' = img
    /\ error' = outcome.error
    /\ result' = outcome.result

\* one pass of the loop of lines 290-318: image, error and result keep the
\* image, the exception and the return value of the last call of
\* display_skin_analysis
VisitFile ==
    /\ dpc = "loop" /\ todo # <<>>
    /\ IF IsPng(Head(todo))
       THEN \E img \in DirImages : \E lab \in [Colours(img) -> 0..(NClusters - 1)] :
              \E outcome \in display_skin_analysis(img, lab) :
                VisitImage(img, outcome)
       ELSE UNCHANGED <<results, image, error, result>>
    /\ todo' = Tail(todo)
    /\ UNCHANGED <<listing, df, dpc, pc, valid_pixel_coords, pixels, labels,
                   center_pixels, skin_cluster, skin_pixels_filtered, call>>

\* lines 321-326: pd.DataFrame([]) has no column L_value, and sort_values
\* raises KeyError
WriteTable ==
    /\ dpc = "loop" /\ todo = <<>>
    /\ IF results = <<>>
       THEN /\ dpc' = "raised"
            /\ error' = "KeyError: 'L_value'"
            /\ df' = df
       ELSE /\ df' \in SortedByL(results)
            /\ dpc' = "returned"
            /\ error' = error
    /\ UNCHANGED <<listing, todo, results, image, pc, valid_pixel_coords,
                   pixels, labels, center_pixels, skin_cluster,
                   skin_pixels_filtered, result, call>>

NextDir == VisitFile \/ WriteTable

SpecDir == InitDir /\ [][NextDir]_vars

(***************************************************************************)
(* Properties of display_skin_analysis, stated on the image itself.        *)
(***************************************************************************)
Terminal == pc \in {"done", "failed"}

\* the number of pixels of the image with opacity above 127
NumValid ==
    IF image = NoImage THEN 0
    ELSE Cardinality({rc \in DOMAIN image.px : image.px[rc][4] > 127})

\* (row, col) lies in the centered patch
InCenterPatch(rc) ==
    /\ Abs(rc[2] - image.width \div 2) < Min2(image.width, image.height) \div 4
    /\ Abs(rc[1] - image.height \div 2) < Min2(image.width, image.height) \div 4

AllValidOutsidePatch ==
    /\ image # NoImage
    /\ \A rc \in DOMAIN image.px : image.px[rc][4] > 127 => ~InCenterPatch(rc)

\* every pixel of the image is opaque and has the colour of pixel (0, 0)
UniformOpaque ==
    /\ image # NoImage
    /\ \A rc \in DOMAIN image.px :
         image.px[rc] = Rgb(image.px[<<0, 0>>]) \o <<255>>

UniformSkinLike ==
    /\ UniformOpaque
    /\ is_likely_skin_color(image.px[<<0, 0>>][1], image.px[<<0, 0>>][2],
                            image.px[<<0, 0>>][3])

\* the band of a lightness in hundredths
BandOf(L) ==
    CASE L \in 8500..10000 -> "Very Light"
      [] L \in 7000..8499  -> "Light"
      [] L \in 5500..6999  -> "Medium Light"
      [] L \in 4000..5499  -> "Medium"
      [] L \in 2500..3999  -> "Medium Dark"
      [] L \in 1000..2499  -> "Dark"
      [] L \in 0..999      -> "Very Dark"

\* the run succeeded with the colour of pixel (0, 0), each channel within 1,
\* and with the band of the lightness of that colour
ReturnsColourOfImage ==
    /\ pc = "done"
    /\ \A ch \in 1..3 : Abs(result.rgb[ch] - image.px[<<0, 0>>][ch]) <= 1
    /\ result.category =
           BandOf(rgb_to_lab(image.px[<<0, 0>>][1], image.px[<<0, 0>>][2],
                             image.px[<<0, 0>>][3]))

\* C3 as stated: an image of any width and height (at least 1) whose pixels
\* are all opaque and of one skin-like colour is analysed with success, and
\* the returned RGB is that colour within 1 per channel, the category the
\* band of the lightness of that colour.
C3_UniformSkinAnySize ==
    (Terminal /\ UniformSkinLike) => ReturnsColourOfImage

\* C3 for images at least 4 pixels wide and 4 pixels high: an image whose
\* pixels are all opaque and of one skin-like colour is analysed with
\* success, the returned RGB is that colour within 1 per channel, and the
\* category is the band of the lightness of that colour.
C3_UniformSkinFromFour ==
    (Terminal /\ UniformSkinLike /\ Min2(image.width, image.height) >= 4)
        => ReturnsColourOfImage

C3_Witness ==
    /\ pc = "done" /\ UniformSkinLike
    /\ Min2(image.width, image.height) >= 4
    /\ image.width # image.height
    /\ result.category = "Light"

\* C5 as stated: when the image has at least one valid pixel and no valid
\* pixel in the centered patch, the run fails with "No valid pixels found in
\* center patch", however many valid pixels there are.
C5_EmptyPatchAnyCount ==
    (Terminal /\ NumValid >= 1 /\ AllValidOutsidePatch)
        => (pc = "failed" /\ error = "No valid pixels found in center patch")

\* C5 for at least 5 valid pixels: when the image has at least 5 valid
\* pixels and no valid pixel in the centered patch, the run fails with
\* "No valid pixels found in center patch" and with no other error.
C5_EmptyPatchFromFive ==
    (Terminal /\ NumValid >= NClusters /\ AllValidOutsidePatch)
        => (pc = "failed" /\ error = "No valid pixels found in center patch")

C5_Witness ==
    /\ pc = "failed" /\ error = "No valid pixels found in center patch"
    /\ NumValid >= NClusters /\ AllValidOutsidePatch
    /\ Min2(image.width, image.height) >= 4

StageOrder(p) ==
    CASE p = "extract"   -> 1
      [] p = "cluster"   -> 2
      [] p = "center"    -> 3
      [] p = "select"    -> 4
      [] p = "mask"      -> 5
      [] p = "summarize" -> 6
      [] p = "done"      -> 7
      [] p = "failed"    -> 7

\* the error a finished run has, read from the image: the checks in order
C7_FirstFailure ==
    Terminal =>
      /\ (image # NoImage /\ NumValid = 0) =>
             /\ error = "No non-transparent pixels found in image"
             /\ labels = <<>>
      /\ (NumValid > 0 /\ NumValid < 5) =>
             /\ error = "n_samples should be >= n_clusters"
             /\ labels = <<>> /\ center_pixels = <<>>
      /\ (NumValid >= 5 /\ AllValidOutsidePatch) =>
             /\ error = "No valid pixels found in center patch"
             /\ skin_cluster = -1
      /\ error = "No skin pixels detected" => center_pixels # <<>>

\* a failed run returns nothing, and a profile is there only when every
\* stage has run
C7_NoPartialResult ==
    /\ pc = "failed" => (result = NoProfile /\ error # ""
                           /\ skin_pixels_filtered = <<>>)
    /\ result # NoProfile =>
          /\ pc = "done" /\ error = ""
          /\ NumValid >= 5 /\ labels # <<>> /\ center_pixels # <<>>
          /\ skin_cluster \in 0..(NClusters - 1)
          /\ skin_pixels_filtered # <<>>
    /\ pc = "done" => result # NoProfile

\* a step starts at a stage that has not ended the run, and either fails or
\* moves to the next stage
C7_StepForward ==
    /\ ~Terminal
    /\ \/ pc' = "failed"
       \/ StageOrder(pc') = StageOrder(pc) + 1

\* C7: the stages run once each in order; the no-valid-pixel check comes
\* before clustering, clustering (which fails under 5 valid pixels) before
\* the center-patch check, that before the no-skin-pixels check; the first
\* failure ends the run, and a profile is returned only when every stage
\* succeeded.
C7_StrictOnePass ==
    /\ [](C7_FirstFailure /\ C7_NoPartialResult)
    /\ [][C7_StepForward]_vars

C7_Witness ==
    /\ pc = "failed" /\ error = "n_samples should be >= n_clusters"
    /\ NumValid > 0 /\ NumValid < 5 /\ AllValidOutsidePatch
    /\ Cardinality(DOMAIN image.px) >= 5

\* the pixels of the selected cluster
SelectedPixels == ClusterPixels(pixels, labels, skin_cluster)

\* 20 times the sum of the 95th percentiles of the three channels of S
TailSum(S) ==
    Percentile95x20(Column(S, 1)) + Percentile95x20(Column(S, 2))
        + Percentile95x20(Column(S, 3))

\* mean(pixel) > 0.7 * t / 60, for t = TailSum(S)
AboveTail(pixel, t) == 200 * (pixel[1] + pixel[2] + pixel[3]) > 7 * t

PassTailAt(S, t) == {i \in 1..Len(S) : AboveTail(S[i], t)}
PassTail(S) == PassTailAt(S, TailSum(S))

\* the pixel's mean equals the threshold as a real number, for a threshold
\* above 0
OnTail(pixel, t) ==
    t > 0 /\ 200 * (pixel[1] + pixel[2] + pixel[3]) = 7 * t

\* the pixels of S strictly above the tail threshold t, in their order
StrictlyAbove(S, t) ==
    LET Above(pixel) == AboveTail(pixel, t)
    IN  SelectSeq(S, Above)

\* the pixels of S strictly above t together with every pixel of S that is
\* on the threshold and of a colour F holds
AboveOrHeld(S, F, t) ==
    LET Held(pixel) ==
            AboveTail(pixel, t) \/ (OnTail(pixel, t) /\ pixel \in Range(F))
    IN  SelectSeq(S, Held)

\* F is S without the pixels below the threshold t and with or without
\* those of each colour on it, or all of S when no pixel is strictly above
FilteredOrAll(S, F, t) ==
    /\ F # <<>>
    /\ \/ F = AboveOrHeld(S, F, t)
       \/ F = S /\ PassTailAt(S, t) = {}

HoldsOnTail(S, F, t) ==
    /\ PassTailAt(S, t) # {}
    /\ \E pixel \in Range(F) : OnTail(pixel, t)

C8_FallbackReached ==
    /\ pc = "done"
    /\ PassTail(SelectedPixels) = {}
    /\ skin_pixels_filtered = SelectedPixels
    /\ Len(SelectedPixels) < Len(pixels)

\* C9: once the selector has returned, the selected cluster id is the label
\* of a valid pixel inside the center patch; the pixels of the selected
\* cluster are never an empty set, and "No skin pixels detected" is never
\* raised.
C9_SelectedClusterInhabited ==
    /\ skin_cluster # -1 =>
          /\ \E i \in 1..Len(pixels) :
               /\ labels[i] = skin_cluster
               /\ InCenterPatch(valid_pixel_coords[i])
               /\ image.px[valid_pixel_coords[i]][4] > 127
          /\ SelectedPixels # <<>>
    /\ error # "No skin pixels detected"

C9_Witness ==
    /\ pc = "done"
    /\ \E j \in Range(center_pixels) : labels[j] # skin_cluster
    /\ \E i \in Range(center_pixels) :
         /\ labels[i] = skin_cluster
         /\ InCenterPatch(valid_pixel_coords[i])
    /\ ~ClusterEntry(Take(pixels, center_pixels), Take(labels, center_pixels),
                     skin_cluster).is_skin

(***************************************************************************)
(* Properties of get_lightness_description.                                *)
(***************************************************************************)
\* the bands in hundredths, lightest first: lo <= L < hi
Bands ==
    << [name |-> "Very Light",   lo |-> 8500, hi |-> 10001],
       [name |-> "Light",        lo |-> 7000, hi |-> 8500],
       [name |-> "Medium Light", lo |-> 5500, hi |-> 7000],
       [name |-> "Medium",       lo |-> 4000, hi |-> 5500],
       [name |-> "Medium Dark",  lo |-> 2500, hi |-> 4000],
       [name |-> "Dark",         lo |-> 1000, hi |-> 2500],
       [name |-> "Very Dark",    lo |-> 0,    hi |-> 1000] >>

BandsWith(L) == {k \in 1..Len(Bands) : Bands[k].lo <= L /\ L < Bands[k].hi}

\* C4: every L in [0, 100] lies in exactly one of the 7 bands and is given
\* the name of that band; the bands follow each other without gap or
\* overlap, and a boundary value (85, 70, 55, 40, 25, 10) belongs to the
\* band above it.
C4_BandsPartition ==
    (call.fn = "get_lightness_description" /\ call.state = "returned"
        /\ call.L_value <= 10000) =>
      /\ Cardinality(BandsWith(call.L_value)) = 1
      /\ \A k \in BandsWith(call.L_value) : call.ret = Bands[k].name
      /\ \A k \in 1..(Len(Bands) - 1) :
           /\ Bands[k].lo = Bands[k + 1].hi
           /\ Bands[k].name # Bands[k + 1].name
      /\ \A k \in 1..Len(Bands) :
           call.L_value = Bands[k].lo => call.ret = Bands[k].name

C4_Witness ==
    /\ call.fn = "get_lightness_description" /\ call.state = "returned"
    /\ call.L_value = 8500 /\ call.ret = "Very Light"

(***************************************************************************)
(* Properties of analyze_directory.                                        *)
(***************************************************************************)
\* the file names the loop has visited, in the order of the visits
Visited ==
    SubSeq(Sorted(listing), 1, Len(Sorted(listing)) - Len(todo))

IsErrorRow(row) ==
    /\ row.category = "ERROR"
    /\ row.L_value = Null /\ row.r = Null /\ row.g = Null /\ row.b = Null
    /\ row.rgb_hex = <<>>

IsProfileRow(row, profile) ==
    /\ row.category = profile.category /\ row.category # "ERROR"
    /\ row.L_value = profile.L /\ row.L_value # Null
    /\ <<row.r, row.g, row.b>> = profile.rgb
    /\ row.rgb_hex # <<>>

\* one row per image file visited, in the order of the visits, which is
\* the ascending order of the names
C6_OneRowPerImage ==
    dpc = "loop" =>
      /\ Len(results) = Len(SelectSeq(Visited, IsPng))
      /\ \A k \in 1..Len(results) :
           /\ results[k].filename = SelectSeq(Visited, IsPng)[k]
           /\ IsErrorRow(results[k]) \/ results[k].L_value \in 0..10000
      /\ \A k \in 1..(Len(results) - 1) :
           StrLess(results[k].filename, results[k + 1].filename)

\* the last row is the one of the last call: the nulls and "ERROR" when the
\* call failed, the returned profile otherwise
C6_LastRowOfLastCall ==
    (dpc = "loop" /\ results # <<>>) =>
      IF error # "" THEN IsErrorRow(results[Len(results)])
      ELSE IsProfileRow(results[Len(results)], result)

\* the returned table has the rows of results, each once
C6_TableKeepsRows ==
    dpc = "returned" =>
      /\ Len(df) = Len(results)
      /\ Range(df) = Range(results)

\* a visit leaves the rows already recorded as they are, adds at most one
\* row, and goes on to the next file
C6_VisitKeepsRows ==
    /\ SubSeq(results', 1, Len(results)) = results
    /\ Len(results') <= Len(results) + 1
    /\ todo # <<>> => (dpc' = "loop" /\ todo' = Tail(todo))

\* C6: analyze_directory calls the pipeline once per image file in sorted
\* order of the names and records one row per image; a failed call gives a
\* row with category "ERROR" and null L_value, r, g, b and rgb_hex, the loop
\* goes on with the next file, and no failure removes or alters a row of
\* another image or ends the run.
C6_ContinueOnError ==
    /\ [](C6_OneRowPerImage /\ C6_LastRowOfLastCall /\ C6_TableKeepsRows)
    /\ [][C6_VisitKeepsRows]_vars

C6_Witness ==
    /\ dpc = "returned"
    /\ Len(results) = 3
    /\ IsErrorRow(results[1]) /\ IsErrorRow(results[3])
    /\ ~IsErrorRow(results[2])

\* C10: for every directory content, an empty one or one without any .png
\* file too, analyze_directory ends normally and returns a table with one
\* row per file whose name ends in .png, whatever the case of the letters.
C10_ReturnsOneRowPerPng ==
    /\ dpc # "raised"
    /\ dpc = "returned" => Len(df) = Cardinality({f \in listing : IsPng(f)})

(***************************************************************************)
(* Properties of get_dominant_non_dark_cluster.                            *)
(***************************************************************************)
SelectorReturned ==
    call.fn = "get_dominant_non_dark_cluster" /\ call.state = "returned"

\* the classifier on the median colour read as red, green, blue
SkinLikeMedian(c) ==
    is_likely_skin_color(TruncColor(c.median_color)[1],
                         TruncColor(c.median_color)[2],
                         TruncColor(c.median_color)[3])

\* C2: the flag that boosts the score and admits a cluster is the
\* classifier applied to r = trunc(255 mr), g = trunc(255 mg),
\* b = trunc(255 mb) of the median colour (mr, mg, mb): a cluster is boosted
\* and accepted exactly when its median colour as an RGB triple is
\* skin-like.
C2_ClassifierSeesRgb ==
    SelectorReturned =>
      \A k \in 1..Len(call.clusters) :
        call.clusters[k].is_skin = SkinLikeMedian(call.clusters[k])

Meets(c, N) == BrightAndLarge(c, N) /\ SkinLikeMedian(c)

\* C1: the selector returns a cluster id and never fails: the first
\* cluster, in descending order of score, that is bright (> 0.15), large
\* (> 5% of the pixels) and of skin-like median colour, and the cluster of
\* highest score when there is none.
C1_FirstSkinLikeOrTop ==
    SelectorReturned =>
      /\ call.ret \in 0..(NClusters - 1)
      /\ \E k \in 1..Len(call.clusters) :
           /\ call.ret = call.clusters[k].id
           /\ IF \E q \in 1..Len(call.clusters) :
                    Meets(call.clusters[q], Len(call.pixels))
              THEN /\ Meets(call.clusters[k], Len(call.pixels))
                   /\ \A q \in 1..(k - 1) :
                        ~Meets(call.clusters[q], Len(call.pixels))
              ELSE k = 1

====
